---- MODULE Spec2Model ----
(***************************************************************************)
(* Model of Native/meshoptimizer/meshopt_wrapper.cpp: the exported         *)
(* function meshopt_simplify_with_uvs, stepped through its code regions,   *)
(* for one call or for several calls running on disjoint destination and   *)
(* result buffers.                                                         *)
(*                                                                         *)
(* Single-precision values are modelled exactly: a float is a class        *)
(* (zero, finite, infinite, NaN), a sign, and for finite values an         *)
(* integer significand m and exponent e standing for m * 2^e.  The         *)
(* product index_count * target_ratio is rounded to a 24 bit significand,  *)
(* round to nearest even, as an IEEE-754 binary32 multiplication does.     *)
(***************************************************************************)
EXTENDS Integers, Sequences, FiniteSets, TLC

VARIABLES
    args,         \* per call: the ten arguments (pointers as buffer names)
    pc,           \* per call: position in meshopt_simplify_with_uvs
    result,       \* per call: the MeshoptSimplifyResult record result points to
    dest,         \* per call: contents of the destination buffer
    locals,       \* per call: target_index_count, meshopt_options, result_error, new_index_count
    engineCalls,  \* per call: the calls made to meshoptimizer, in order, with their arguments
    engine,       \* the engine as a function: the (input, output) pairs seen so far
    entry,        \* per call: what the result record held when the call was made (history)
    ub            \* what this build does on the two undefined operations

vars == <<args, pc, result, dest, locals, engineCalls, engine, entry, ub>>

---------------------------------------------------------------------------
(* Bounds of the model *)

MaxTriangles == 10

NumConcurrent == 2

---------------------------------------------------------------------------
(* Program constants *)

ErrorMessageSize == 256

FloatMantissaBits == 24

FloatMaxExponent == 128

SizeBits == 64

AttributeCount == 2

NULL == "NULL"

NullPointerMsg == "Null pointer in required parameter"

EmptyMeshMsg == "Empty mesh (zero indices or vertices)"

NotMultipleMsg == "Index count must be multiple of 3"

SimplifyLockBorder == "meshopt_SimplifyLockBorder"

SimplifyErrorAbsolute == "meshopt_SimplifyErrorAbsolute"

---------------------------------------------------------------------------
(* Single-precision floats *)

RECURSIVE Pow2(_)
Pow2(k) == IF k <= 0 THEN 1 ELSE 2 * Pow2(k - 1)

RECURSIVE BitLen(_)
BitLen(m) == IF m = 0 THEN 0 ELSE 1 + BitLen(m \div 2)

FZero == [cls |-> "zero", neg |-> FALSE, m |-> 0, e |-> 0]

FNaN == [cls |-> "nan", neg |-> FALSE, m |-> 0, e |-> 0]

FInf == [cls |-> "inf", neg |-> FALSE, m |-> 0, e |-> 0]

Fin(neg, m, e) == [cls |-> "fin", neg |-> neg, m |-> m, e |-> e]

\* x > 0.0f : false for zero, for negatives and for NaN
FGtZero(x) == x.cls \in {"fin", "inf"} /\ ~x.neg

\* the non-negative value M * 2^e rounded to a float (round to nearest, ties to even)
FloatRound(M, e) ==
    IF M = 0 THEN FZero
    ELSE LET b  == BitLen(M)
             s  == IF b > FloatMantissaBits THEN b - FloatMantissaBits ELSE 0
             q  == M \div Pow2(s)
             r  == M % Pow2(s)
             up == s > 0 /\ (r > Pow2(s - 1) \/ (r = Pow2(s - 1) /\ q % 2 = 1))
             q2 == IF up THEN q + 1 ELSE q
         IN  IF BitLen(q2) + e + s > FloatMaxExponent
             THEN FInf
             ELSE Fin(FALSE, q2, e + s)

\* (float)n for a size_t n
SizeToFloat(n) == FloatRound(n, 0)

\* x * y for x >= 0 finite or zero and y > 0
FMul(x, y) ==
    IF y.cls = "inf" THEN (IF x.cls = "zero" THEN FNaN ELSE FInf)
    ELSE IF x.cls = "zero" THEN FZero
    ELSE IF x.cls = "inf" THEN FInf
    ELSE FloatRound(x.m * y.m, x.e + y.e)

\* whether static_cast<size_t>(x) is defined: the truncated value fits a size_t
CastDefined(x) ==
    \/ x.cls = "zero"
    \/ x.cls = "fin" /\ (x.neg => BitLen(x.m) + x.e <= 0)
                     /\ BitLen(x.m) + x.e <= SizeBits

\* static_cast<size_t>(x) where defined: truncation toward zero
CastToSize(x) ==
    IF x.cls = "zero" \/ x.neg THEN 0
    ELSE IF x.e >= 0 THEN x.m * Pow2(x.e)
    ELSE IF 0 - x.e >= BitLen(x.m) THEN 0
    ELSE x.m \div Pow2(0 - x.e)

---------------------------------------------------------------------------
(* meshopt_simplify_with_uvs, region by region *)

Required == {"destination", "indices", "vertex_positions", "options", "result"}

\* a variant that resets the status and the message only
InitialisedResultStatusOnly(r) ==
    [r EXCEPT !.success = 0, !.error_message = ""]

\* lines 37-40: the four stores through result
InitialisedResult(r) ==
    [r EXCEPT !.index_count = 0, !.result_error = FZero,
              !.success = 0, !.error_message = ""]

\* the C string left in a zero-led buffer by strncpy(buffer, src, n): src is
\* copied whole and padded with zeros when shorter than n, cut at n otherwise
Strncpy(src, n) == IF Len(src) < n THEN src ELSE SubSeq(src, 1, n)

\* lines 44, 49, 54: the message is stored, every other field is left alone
FailWith(r, msg) ==
    [r EXCEPT !.error_message = Strncpy(msg, ErrorMessageSize - 1)]

\* line 43; resultTested is false in a build that dropped the test of result
NullRequired(a, resultTested) ==
    \/ a.destination = NULL
    \/ a.indices = NULL
    \/ a.vertex_positions = NULL
    \/ a.options_ptr = NULL
    \/ (resultTested /\ a.result = NULL)

\* line 48
EmptyMesh(a) == a.index_count = 0 \/ a.vertex_count = 0

\* line 53
NotTriangles(a) == a.index_count % 3 # 0

\* line 60
UsesRatio(o) == o.target_index_count = 0 /\ FGtZero(o.target_ratio)

\* line 61, the float operand of the cast
RatioProduct(n, o) == FMul(SizeToFloat(n), o.target_ratio)

\* a variant that rounds to the nearest multiple of 3
RoundToTripleNearest(t) == ((t + 1) \div 3) * 3

\* line 63
RoundToTriple(t) == (t \div 3) * 3

\* a variant without the floor of one triangle
ClampTargetAbsent(t) == t

\* lines 66-68
ClampTarget(t) == IF t = 0 THEN 3 ELSE t

\* a variant that assigns each flag instead of or-ing it in
MeshoptOptionsAssigned(o) ==
    IF o.error_is_absolute # 0 THEN {SimplifyErrorAbsolute}
    ELSE IF o.lock_border # 0 THEN {SimplifyLockBorder} ELSE {}

\* lines 71-77
MeshoptOptions(o) ==
    (IF o.lock_border # 0 THEN {SimplifyLockBorder} ELSE {})
    \cup (IF o.error_is_absolute # 0 THEN {SimplifyErrorAbsolute} ELSE {})

\* a variant that takes the attribute path whenever UVs are given
UseAttributesAnyWeight(a) == a.vertex_uvs # NULL

\* line 84
UseAttributes(a) == a.vertex_uvs # NULL /\ FGtZero(a.options.uv_weight)

\* lines 90, 95-111
AttributeCall(a, l) ==
    [fn                 |-> "meshopt_simplifyWithAttributes",
     destination        |-> a.destination,
     indices            |-> a.indices,
     index_count        |-> a.index_count,
     vertex_positions   |-> a.vertex_positions,
     vertex_count       |-> a.vertex_count,
     vertex_stride      |-> a.vertex_stride,
     vertex_attributes  |-> a.vertex_uvs,
     attribute_stride   |-> a.uv_stride,
     attribute_weights  |-> <<a.options.uv_weight, a.options.uv_weight>>,
     attribute_count    |-> AttributeCount,
     vertex_lock        |-> NULL,
     target_index_count |-> l.target_index_count,
     target_error       |-> a.options.target_error,
     options            |-> l.meshopt_options]

\* lines 114-125; the attribute parameters do not exist in this call and are
\* written as null, zero and empty
PositionCall(a, l) ==
    [fn                 |-> "meshopt_simplify",
     destination        |-> a.destination,
     indices            |-> a.indices,
     index_count        |-> a.index_count,
     vertex_positions   |-> a.vertex_positions,
     vertex_count       |-> a.vertex_count,
     vertex_stride      |-> a.vertex_stride,
     vertex_attributes  |-> NULL,
     attribute_stride   |-> 0,
     attribute_weights  |-> <<>>,
     attribute_count    |-> 0,
     vertex_lock        |-> NULL,
     target_index_count |-> l.target_index_count,
     target_error       |-> a.options.target_error,
     options            |-> l.meshopt_options]

\* lines 84-126: the one call this invocation makes
EngineCall(a, l) == IF UseAttributes(a) THEN AttributeCall(a, l) ELSE PositionCall(a, l)

\* a variant that reports the requested count instead of the achieved one
PackagedResultFromTarget(r, l) ==
    [r EXCEPT !.index_count = l.target_index_count,
              !.result_error = l.result_error,
              !.success = 1]

\* lines 128-130
PackagedResult(r, l) ==
    [r EXCEPT !.index_count = l.new_index_count,
              !.result_error = l.result_error,
              !.success = 1]

\* a variant that rounds an explicit target as well
DerivedTargetRounded(o, cast) ==
    ClampTarget(RoundToTriple(IF UsesRatio(o) THEN cast ELSE o.target_index_count))

\* lines 59-68: the target handed to the engine; cast is the value of the
\* static_cast at line 61 and is read only when the ratio is used
DerivedTarget(o, cast) ==
    ClampTarget(IF UsesRatio(o) THEN RoundToTriple(cast) ELSE o.target_index_count)

---------------------------------------------------------------------------
(* The undefined operations and the external engine *)

\* A store through a null result (lines 37-40, 44, 49, 54, 128-130): the build
\* traps, or the store lands in no object of the program; in the second case
\* the test of result at line 43 is either kept ("ignored") or was removed by
\* the compiler because result was already dereferenced ("elided").
NullStoreOutcomes ==
    IF ub.nullStore = "unset" THEN {"trap", "ignored", "elided"} ELSE {ub.nullStore}

\* static_cast<size_t> of a float outside the range of size_t (line 61): any
\* value; one per build
CastOutcomes == IF ub.cast = -1 THEN {0, 4, 1000} ELSE {ub.cast}

\* what the engine computes from: its arguments without the output buffer
EngineInput(call) == [call EXCEPT !.destination = "out"]

EngineErrors == {FZero, Fin(FALSE, 1, -4)}

\* the engine returns a whole number of triangles, no more than it was given,
\* and an achieved error
EngineContract(in) ==
    {[count |-> 3 * k, error |-> e] : k \in 0..(in.index_count \div 3), e \in EngineErrors}

\* the engine is a function of its input: an input seen before gives the same output
EngineOutputs(in) ==
    IF \E p \in engine : p[1] = in
    THEN {p[2] : p \in {q \in engine : q[1] = in}}
    ELSE EngineContract(in)

\* the simplified index buffer the engine leaves in destination
EngineWrites(call, out) == [writer |-> call.fn, index_count |-> out.count]

---------------------------------------------------------------------------
(* Inputs *)

Calls == DOMAIN pc

FreshLocals ==
    [target_index_count |-> 0, meshopt_options |-> {},
     result_error |-> FZero, new_index_count |-> 0]

CallerContents == [writer |-> "caller", index_count |-> 0]

\* a result record as an earlier call left it: a success, or a failure
EarlierSuccess ==
    [index_count |-> 6, result_error |-> Fin(FALSE, 1, -1),
     success |-> 1, error_message |-> ""]

EarlierFailure ==
    [index_count |-> 0, result_error |-> FZero,
     success |-> 0, error_message |-> EmptyMeshMsg]

PriorResults == {EarlierSuccess, EarlierFailure}

OptionsOf(t, r, te, w, lb, ea) ==
    [target_index_count |-> t, target_ratio |-> r, target_error |-> te,
     uv_weight |-> w, lock_border |-> lb, error_is_absolute |-> ea]

DefaultOptions == OptionsOf(0, FZero, FZero, FZero, 0, 0)

\* 0.375, 0.7f (0x1.666666p-1), 2^70, and values that are not > 0
TargetRatios ==
    {FZero, Fin(TRUE, 3, -3), Fin(FALSE, 3, -3), Fin(FALSE, 11744051, -24),
     Fin(FALSE, 1, 70), FNaN}

OptionValues ==
    {OptionsOf(t, r, te, w, lb, ea) :
        t \in {0, 1, 3 * MaxTriangles + 4},
        r \in TargetRatios,
        te \in {FZero, Fin(FALSE, 1, -7)},
        w \in {FZero, Fin(FALSE, 1, 0), Fin(TRUE, 1, 0)},
        lb \in {0, 2},
        ea \in {0, 1}}

NullCases == {{}} \cup {{p} : p \in Required} \cup {Required}

Pointer(name, nulls) == IF name \in nulls THEN NULL ELSE name

ArgsOf(nulls, n, vc, uvs, o) ==
    [destination      |-> Pointer("destination", nulls),
     indices          |-> Pointer("indices", nulls),
     index_count      |-> n,
     vertex_positions |-> Pointer("vertex_positions", nulls),
     vertex_count     |-> vc,
     vertex_stride    |-> 12,
     vertex_uvs       |-> uvs,
     uv_stride        |-> 8,
     options_ptr      |-> Pointer("options", nulls),
     options          |-> IF "options" \in nulls THEN DefaultOptions ELSE o,
     result           |-> Pointer("result", nulls)]

ArgValues ==
    {ArgsOf(nulls, n, vc, uvs, o) :
        nulls \in NullCases,
        n \in {0, 3, 7, 3 * MaxTriangles},
        vc \in {0, 4},
        uvs \in {NULL, "vertex_uvs"},
        o \in OptionValues}

\* the calls of the concurrent specification: every call has its own result
\* record and destination buffer
ConcurrentArgValues ==
    {ArgsOf({}, n, 4, uvs, OptionsOf(0, r, FZero, Fin(FALSE, 1, 0), 2, 0)) :
        n \in {3, 4},
        uvs \in {NULL, "vertex_uvs"},
        r \in {Fin(FALSE, 3, -2), Fin(FALSE, 1, 70)}}

InitOver(callers, values) ==
    /\ args \in [callers -> values]
    /\ pc = [c \in callers |-> "begin"]
    /\ result \in [callers -> PriorResults]
    /\ \A c \in callers : args[c].result = NULL => result[c] = EarlierSuccess
    /\ entry = result
    /\ dest = [c \in callers |-> CallerContents]
    /\ locals = [c \in callers |-> FreshLocals]
    /\ engineCalls = [c \in callers |-> <<>>]
    /\ engine = {}
    /\ ub = [nullStore |-> "unset", cast |-> -1]

Init == InitOver({1}, ArgValues)

\* the first call reuses a record an earlier failure left, the others one an
\* earlier success left
InitConcurrent ==
    /\ InitOver(1..NumConcurrent, ConcurrentArgValues)
    /\ \A c \in 1..NumConcurrent :
          result[c] = IF c = 1 THEN EarlierFailure ELSE EarlierSuccess

---------------------------------------------------------------------------
(* Steps of a call *)

\* a variant in which every call reports through one shared record
StoredShared(c, r) == [result EXCEPT ![1] = r]

\* a store through result: into the record, or through a null pointer in a
\* build where that does not trap
Stored(c, r) ==
    IF args[c].result = NULL THEN result ELSE [result EXCEPT ![c] = r]

Return(c) == [pc EXCEPT ![c] = "done"]

\* lines 37-40
Begin(c) ==
    /\ pc[c] = "begin"
    /\ IF args[c].result = NULL
       THEN \E o \in NullStoreOutcomes :
               /\ ub' = [ub EXCEPT !.nullStore = o]
               /\ pc' = IF o = "trap"
                        THEN [d \in Calls |-> IF pc[d] = "done" THEN "done" ELSE "crashed"]
                        ELSE [pc EXCEPT ![c] = "check_null"]
               /\ UNCHANGED result
       ELSE /\ result' = [result EXCEPT ![c] = InitialisedResult(result[c])]
            /\ pc' = [pc EXCEPT ![c] = "check_null"]
            /\ UNCHANGED ub
    /\ UNCHANGED <<args, dest, locals, engineCalls, engine, entry>>

\* lines 43-46
CheckNull(c) ==
    /\ pc[c] = "check_null"
    /\ IF NullRequired(args[c], ub.nullStore # "elided")
       THEN /\ result' = Stored(c, FailWith(result[c], NullPointerMsg))
            /\ pc' = Return(c)
       ELSE /\ pc' = [pc EXCEPT ![c] = "check_empty"]
            /\ UNCHANGED result
    /\ UNCHANGED <<args, dest, locals, engineCalls, engine, entry, ub>>

\* lines 48-51
CheckEmpty(c) ==
    /\ pc[c] = "check_empty"
    /\ IF EmptyMesh(args[c])
       THEN /\ result' = Stored(c, FailWith(result[c], EmptyMeshMsg))
            /\ pc' = Return(c)
       ELSE /\ pc' = [pc EXCEPT ![c] = "check_triangles"]
            /\ UNCHANGED result
    /\ UNCHANGED <<args, dest, locals, engineCalls, engine, entry, ub>>

\* lines 53-56
CheckTriangles(c) ==
    /\ pc[c] = "check_triangles"
    /\ IF NotTriangles(args[c])
       THEN /\ result' = Stored(c, FailWith(result[c], NotMultipleMsg))
            /\ pc' = Return(c)
       ELSE /\ pc' = [pc EXCEPT ![c] = "target"]
            /\ UNCHANGED result
    /\ UNCHANGED <<args, dest, locals, engineCalls, engine, entry, ub>>

\* lines 58-68
DeriveTarget(c) ==
    /\ pc[c] = "target"
    /\ LET o == args[c].options
           p == RatioProduct(args[c].index_count, o)
       IN  IF UsesRatio(o) /\ ~CastDefined(p)
           THEN \E v \in CastOutcomes :
                   /\ ub' = [ub EXCEPT !.cast = v]
                   /\ locals' = [locals EXCEPT ![c].target_index_count = DerivedTarget(o, v)]
           ELSE /\ locals' = [locals EXCEPT ![c].target_index_count =
                                 DerivedTarget(o, IF UsesRatio(o) THEN CastToSize(p) ELSE 0)]
                /\ UNCHANGED ub
    /\ pc' = [pc EXCEPT ![c] = "flags"]
    /\ UNCHANGED <<args, result, dest, engineCalls, engine, entry>>

\* lines 70-79
MapFlags(c) ==
    /\ pc[c] = "flags"
    /\ locals' = [locals EXCEPT ![c].meshopt_options = MeshoptOptions(args[c].options),
                                ![c].result_error = FZero]
    /\ pc' = [pc EXCEPT ![c] = "engine"]
    /\ UNCHANGED <<args, result, dest, engineCalls, engine, entry, ub>>

\* lines 81-126
CallEngine(c) ==
    /\ pc[c] = "engine"
    /\ LET call == EngineCall(args[c], locals[c])
       IN  \E out \in EngineOutputs(EngineInput(call)) :
              /\ engine' = engine \cup {<<EngineInput(call), out>>}
              /\ dest' = [dest EXCEPT ![c] = EngineWrites(call, out)]
              /\ locals' = [locals EXCEPT ![c].new_index_count = out.count,
                                          ![c].result_error = out.error]
              /\ engineCalls' = [engineCalls EXCEPT ![c] = Append(@, call)]
    /\ pc' = [pc EXCEPT ![c] = "package"]
    /\ UNCHANGED <<args, result, entry, ub>>

\* lines 128-131
Package(c) ==
    /\ pc[c] = "package"
    /\ result' = Stored(c, PackagedResult(result[c], locals[c]))
    /\ pc' = Return(c)
    /\ UNCHANGED <<args, dest, locals, engineCalls, engine, entry, ub>>

Next ==
    \/ \E c \in Calls : Begin(c)
    \/ \E c \in Calls : CheckNull(c)
    \/ \E c \in Calls : CheckEmpty(c)
    \/ \E c \in Calls : CheckTriangles(c)
    \/ \E c \in Calls : DeriveTarget(c)
    \/ \E c \in Calls : MapFlags(c)
    \/ \E c \in Calls : CallEngine(c)
    \/ \E c \in Calls : Package(c)

Spec == Init /\ [][Next]_vars

SpecConcurrent == InitConcurrent /\ [][Next]_vars

---------------------------------------------------------------------------
(* Vocabulary of the claims, stated on the arguments alone *)

Returned(c) == pc[c] = "done"

Ended(c) == pc[c] \in {"done", "crashed"}

SomeRequiredNull(a) ==
    NULL \in {a.destination, a.indices, a.vertex_positions, a.options_ptr, a.result}

\* the message of the first check the arguments violate, "" when they pass all
FirstViolationMsg(a) ==
    CASE SomeRequiredNull(a)                         -> NullPointerMsg
      [] a.index_count = 0 \/ a.vertex_count = 0     -> EmptyMeshMsg
      [] a.index_count % 3 # 0                       -> NotMultipleMsg
      [] OTHER                                       -> ""

ValidCall(a) == FirstViolationMsg(a) = ""

Positive(x) == x.cls \in {"fin", "inf"} /\ x.neg = FALSE

FirstEngineCall(c) == engineCalls[c][1]

---------------------------------------------------------------------------
(* C1 *)

\* C1: a call whose arguments violate a validation check returns, reports
\* success = 0 with the message of the first violated check (null pointer,
\* then empty mesh, then index count not a multiple of 3), and has made no
\* engine call.
C1_FirstViolationReported ==
    \A c \in Calls :
        (Ended(c) /\ ~ValidCall(args[c])) =>
            /\ Returned(c)
            /\ engineCalls[c] = <<>>
            /\ args[c].result # NULL =>
                  /\ result[c].success = 0
                  /\ result[c].error_message = FirstViolationMsg(args[c])

---------------------------------------------------------------------------
(* C2 *)

\* C2: a call in which exactly one required argument (destination, indices,
\* vertex_positions, options or result) is null completes normally, reports
\* success = 0 with the null pointer message (in the result record, where there
\* is one) and leaves the destination buffer as the caller had it.
C2_NullArgumentRejected ==
    \A c \in Calls :
        \A name \in Required :
            (Ended(c) /\ args[c] \in {ArgsOf({name}, args[c].index_count,
                                            args[c].vertex_count, args[c].vertex_uvs,
                                            args[c].options)}) =>
                /\ Returned(c)
                /\ dest[c] = CallerContents
                /\ args[c].result # NULL =>
                      /\ result[c].success = 0
                      /\ result[c].error_message = NullPointerMsg

---------------------------------------------------------------------------
(* C3 *)

\* 3 * floor(x / 3) for a float x >= 0
TripleBelow(x) ==
    IF x.cls = "zero" THEN 0
    ELSE IF x.e >= 0 THEN 3 * ((x.m * Pow2(x.e)) \div 3)
    ELSE IF 0 - x.e >= BitLen(x.m) THEN 0
    ELSE 3 * (x.m \div (3 * Pow2(0 - x.e)))

\* 3 * floor(n * r / 3) for the exact product of n and a finite float r > 0
ExactTripleBelow(n, r) ==
    IF r.e >= 0 THEN 3 * ((n * r.m * Pow2(r.e)) \div 3)
    ELSE 3 * ((n * r.m) \div (3 * Pow2(0 - r.e)))

\* whether the exact product of n and r is below 2^SizeBits
ExactFits(n, r) == r.cls = "fin" /\ BitLen(n * r.m) + r.e <= SizeBits

OrOneTriangle(t) == IF t # 0 THEN t ELSE 3

RatioCall(c) ==
    /\ engineCalls[c] # <<>>
    /\ args[c].options.target_index_count = 0
    /\ Positive(args[c].options.target_ratio)

\* C3 as stated, for the ratios whose product with index_count a size_t can
\* hold: with target_index_count = 0 and target_ratio = r > 0 the engine target
\* is floor(index_count * r / 3) * 3 of the exact product, or 3 when that is
\* zero.
C3_ExactProductTruncated ==
    \A c \in Calls :
        (RatioCall(c) /\ ExactFits(args[c].index_count, args[c].options.target_ratio)) =>
            FirstEngineCall(c).target_index_count =
                OrOneTriangle(ExactTripleBelow(args[c].index_count,
                                               args[c].options.target_ratio))

\* C3 amended: with target_index_count = 0 and target_ratio = r > 0, and the
\* single-precision product P = (float)index_count * r within the range of
\* size_t, the engine target is floor(P / 3) * 3, or 3 when that is zero.
C3_FloatProductTruncated ==
    \A c \in Calls :
        LET P == RatioProduct(args[c].index_count, args[c].options)
        IN  (RatioCall(c) /\ CastDefined(P)) =>
                FirstEngineCall(c).target_index_count = OrOneTriangle(TripleBelow(P))

\* a ratio call whose product is not a multiple of 3 and was truncated down
C3_TruncationReached ==
    \E c \in Calls :
        LET P == RatioProduct(args[c].index_count, args[c].options)
        IN  /\ RatioCall(c)
            /\ CastDefined(P)
            /\ FirstEngineCall(c).target_index_count = TripleBelow(P)
            /\ FirstEngineCall(c).target_index_count < CastToSize(P)

---------------------------------------------------------------------------
(* C4 *)

\* C4: every engine call is given a target of at least 1, and a call with
\* target_index_count = 0 and target_ratio = 0 is given exactly 3.
C4_TargetNeverZero ==
    \A c \in Calls :
        engineCalls[c] # <<>> =>
            /\ FirstEngineCall(c).target_index_count >= 1
            /\ (args[c].options.target_index_count = 0
                /\ args[c].options.target_ratio = FZero) =>
                    FirstEngineCall(c).target_index_count = 3

\* the engine was called for target_index_count = 0, target_ratio = 0
C4_BothAbsentReached ==
    \E c \in Calls :
        /\ engineCalls[c] # <<>>
        /\ args[c].options.target_index_count = 0
        /\ args[c].options.target_ratio = FZero
        /\ FirstEngineCall(c).target_index_count = 3

---------------------------------------------------------------------------
(* C5 *)

\* C5: a call makes at most one engine call and a valid call that returned made
\* exactly one: meshopt_simplifyWithAttributes, with 2 attributes, both
\* weights uv_weight and no vertex lock, if vertex_uvs is non-null and
\* uv_weight > 0, and meshopt_simplify otherwise.
C5_OneVariantChosen ==
    \A c \in Calls :
        /\ Len(engineCalls[c]) <= 1
        /\ (Returned(c) /\ ValidCall(args[c])) => Len(engineCalls[c]) = 1
        /\ engineCalls[c] # <<>> =>
              IF args[c].vertex_uvs # NULL /\ Positive(args[c].options.uv_weight)
              THEN /\ FirstEngineCall(c).fn = "meshopt_simplifyWithAttributes"
                   /\ FirstEngineCall(c).attribute_count = 2
                   /\ FirstEngineCall(c).attribute_weights =
                         <<args[c].options.uv_weight, args[c].options.uv_weight>>
                   /\ FirstEngineCall(c).vertex_attributes = args[c].vertex_uvs
                   /\ FirstEngineCall(c).vertex_lock = NULL
              ELSE FirstEngineCall(c).fn = "meshopt_simplify"

\* a valid call with UVs and a weight that is not positive returned after the
\* position-only call
C5_UvsWithoutWeightReached ==
    \E c \in Calls :
        /\ Returned(c)
        /\ ValidCall(args[c])
        /\ args[c].vertex_uvs # NULL
        /\ ~Positive(args[c].options.uv_weight)
        /\ FirstEngineCall(c).fn = "meshopt_simplify"

---------------------------------------------------------------------------
(* C6 *)

---------------------------------------------------------------------------
(* C7 *)

\* what the engine returned for the call c made
EngineReturned(c, count, error) ==
    /\ Len(engineCalls[c]) = 1
    /\ <<EngineInput(FirstEngineCall(c)), [count |-> count, error |-> error]>> \in engine

\* C7: after a call that returned, the result record is a success (success = 1,
\* empty message, index_count and result_error as the engine returned them in
\* this call) or a failure (success = 0, a message, index_count = 0 and
\* result_error = 0.0), whatever it held before.
C7_ResultShape ==
    \A c \in Calls :
        (Returned(c) /\ args[c].result # NULL) =>
            \/ /\ result[c].success = 1
               /\ result[c].error_message = ""
               /\ EngineReturned(c, result[c].index_count, result[c].result_error)
            \/ /\ result[c].success = 0
               /\ result[c].error_message # ""
               /\ result[c].index_count = 0
               /\ result[c].result_error = FZero
               /\ engineCalls[c] = <<>>

\* a call on a record an earlier success left (index_count 6, result_error
\* 0.5, success 1) returned the failure of the third check
C7_StaleRecordReached ==
    \E c \in Calls :
        /\ Returned(c)
        /\ entry[c] = EarlierSuccess
        /\ args[c].result # NULL
        /\ result[c].success = 0
        /\ result[c].error_message = NotMultipleMsg

---------------------------------------------------------------------------
(* C9 *)

\* C9: a nonzero target_index_count reaches the engine unchanged, whatever
\* target_ratio is, and a valid call with one is not rejected.
C9_ExplicitTargetUnchanged ==
    \A c \in Calls :
        args[c].options.target_index_count # 0 =>
            /\ engineCalls[c] # <<>> =>
                  FirstEngineCall(c).target_index_count = args[c].options.target_index_count
            /\ (Returned(c) /\ ValidCall(args[c])) =>
                  (engineCalls[c] # <<>> /\ result[c].success = 1)

\* the engine was given a target of 1 in a call that also set a positive ratio
C9_OddTargetPassedReached ==
    \E c \in Calls :
        /\ engineCalls[c] # <<>>
        /\ args[c].options.target_index_count = 1
        /\ Positive(args[c].options.target_ratio)
        /\ FirstEngineCall(c).target_index_count = 1

---------------------------------------------------------------------------
(* C10 *)

\* C10: the flags given to the engine, in either variant, hold the lock-border
\* bit exactly when lock_border is nonzero, the absolute-error bit exactly when
\* error_is_absolute is nonzero, and no other bit.
C10_FlagsMapped ==
    \A c \in Calls :
        engineCalls[c] # <<>> =>
            FirstEngineCall(c).options =
                {f \in {SimplifyLockBorder, SimplifyErrorAbsolute} :
                    \/ f = SimplifyLockBorder /\ args[c].options.lock_border # 0
                    \/ f = SimplifyErrorAbsolute /\ args[c].options.error_is_absolute # 0}

\* the attribute-aware call was given both bits
C10_BothFlagsReached ==
    \E c \in Calls :
        /\ engineCalls[c] # <<>>
        /\ args[c].options.lock_border # 0
        /\ args[c].options.error_is_absolute # 0
        /\ FirstEngineCall(c).fn = "meshopt_simplifyWithAttributes"
        /\ FirstEngineCall(c).options = {SimplifyLockBorder, SimplifyErrorAbsolute}

---------------------------------------------------------------------------
(* C8 *)

Deterministic ==
    \A c, d \in Calls :
        (Returned(c) /\ Returned(d) /\ args[c] = args[d]) =>
            (result[c] = result[d] /\ dest[c] = dest[d])

\* a call that returned ended as it does alone: with the failure of its first
\* violated check and an untouched destination, or with the engine's output
\* for its own input in its result record and its destination
AsAlone ==
    \A c \in Calls :
        Returned(c) =>
            IF ValidCall(args[c])
            THEN /\ result[c].success = 1
                 /\ result[c].error_message = ""
                 /\ EngineReturned(c, result[c].index_count, result[c].result_error)
                 /\ dest[c] = EngineWrites(FirstEngineCall(c),
                                           [count |-> result[c].index_count,
                                            error |-> result[c].result_error])
            ELSE /\ result[c] = [index_count |-> 0, result_error |-> FZero,
                                 success |-> 0,
                                 error_message |-> FirstViolationMsg(args[c])]
                 /\ dest[c] = CallerContents

\* a step leaves the arguments of every call alone, and the buffers and locals
\* of every call that did not take it
NonInterference ==
    /\ args' = args
    /\ \A c \in Calls :
          pc'[c] = pc[c] =>
              /\ result'[c] = result[c]
              /\ dest'[c] = dest[c]
              /\ locals'[c] = locals[c]
              /\ engineCalls'[c] = engineCalls[c]

\* C8: calls on disjoint destination and result buffers, interleaved in any
\* way, each end as they do alone; calls with the same arguments end with the
\* same result and destination contents; no step of a call changes an argument
\* or another call's buffers.
C8_CallsIndependent == [](Deterministic /\ AsAlone) /\ [][NonInterference]_vars

\* two calls with the same arguments, on records that held different contents,
\* both returned with success
C8_SameArgsReached ==
    \E c, d \in Calls :
        /\ c # d
        /\ Returned(c) /\ Returned(d)
        /\ args[c] = args[d]
        /\ entry[c] # entry[d]
        /\ result[c].success = 1
        /\ result[d].success = 1

====
